---- MODULE Spec2Model ----
(***************************************************************************)
(* A model of MultiOAuthenticator (multioauthenticator.py): the dispatcher *)
(* that multiplexes the google, github and gitlab OAuthenticators behind   *)
(* one login page, and of its chooser handler MultiOAuthLoginHandler.      *)
(*                                                                         *)
(* Strings are sequences of tokens (<<"/", "hub", "/">> is "/hub/"): the   *)
(* token "/" followed by the token "login" is the text "/login".  Python's *)
(* None is the one-token string None.                                      *)
(***************************************************************************)
EXTENDS Naturals, Sequences, FiniteSets, TLC

VARIABLES
    enable_google, enable_github, enable_gitlab,   \* the three Bool traits
    google_authenticator,                          \* the three adapter instances
    github_authenticator,
    gitlab_authenticator,
    config,                \* self.config, the dispatcher's own configuration
    __client_id,           \* the dispatcher's cached credential context
    __client_secret,
    __scope,
    _trait_values,         \* per provider, the adapter instance the trait holds
    instances,             \* per provider, the instances handed to callers so far
    last,                  \* the latest call and what it produced
    attempts               \* the login attempts in flight

config_vars == <<enable_google, enable_github, enable_gitlab,
                 google_authenticator, github_authenticator,
                 gitlab_authenticator, config>>
cred_vars == <<__client_id, __client_secret, __scope>>
trait_vars == <<_trait_values, instances>>
vars == <<config_vars, cred_vars, trait_vars, last, attempts>>

---------------------------------------------------------------------------
(* Bounds *)

\* Number of login attempts in flight at once.
NumAttempts == 2

---------------------------------------------------------------------------
(* Strings *)

None == <<"None">>
Empty == <<>>

\* Python truthiness of an optional string: None and '' are falsy.
Truthy(s) == s # None /\ s # Empty

Providers == {"google", "github", "gitlab"}

\* The order in which the code tests the providers.
ProviderOrder == <<"google", "github", "gitlab">>

RECURSIVE Replace(_, _, _)
\* str.replace(old, new): every non-overlapping occurrence, left to right.
Replace(s, old, new) ==
    IF Len(s) < Len(old) THEN s
    ELSE IF SubSeq(s, 1, Len(old)) = old
         THEN new \o Replace(SubSeq(s, Len(old) + 1, Len(s)), old, new)
         ELSE <<Head(s)>> \o Replace(Tail(s), old, new)

RECURSIVE UntilQuery(_)
\* urlsplit(uri).path of a relative uri: the text before the first "?".
UntilQuery(s) ==
    IF s = <<>> \/ Head(s) = "?" THEN <<>>
    ELSE <<Head(s)>> \o UntilQuery(Tail(s))

urlsplit_path(uri) == UntilQuery(uri)

RECURSIVE Quote(_)
\* The percent-encoding url_concat and url_escape apply to a value:
\* "/" becomes "%2F", a space "+", letters and digits stay.
Quote(s) ==
    IF s = <<>> THEN <<>>
    ELSE <<CASE Head(s) = "/" -> "%2F"
             [] Head(s) = " " -> "+"
             [] OTHER -> Head(s)>> \o Quote(Tail(s))

url_escape(s) == Quote(s)

\* url_concat(url, {'next': value}) for a url without a query of its own.
url_concat(url, nextval) ==
    IF \E i \in 1..Len(url) : url[i] = "?"
    THEN url \o <<"&", "next", "=">> \o Quote(nextval)
    ELSE url \o <<"?", "next", "=">> \o Quote(nextval)

RECURSIVE LStrip(_)
LStrip(s) == IF s # <<>> /\ Head(s) = " " THEN LStrip(Tail(s)) ELSE s

RECURSIVE RStrip(_)
RStrip(s) ==
    IF s # <<>> /\ s[Len(s)] = " " THEN RStrip(SubSeq(s, 1, Len(s) - 1)) ELSE s

\* RequestHandler.get_argument(name, default): the submitted value with
\* surrounding whitespace stripped, or the default when the field is absent.
get_argument(arguments, name, default) ==
    IF arguments[name] = None THEN default
    ELSE RStrip(LStrip(arguments[name]))

---------------------------------------------------------------------------
(* Handlers and requests *)

\* The handler classes the module imports or defines, with their bases.
Bases(cls) ==
    CASE cls = "GoogleLoginHandler" -> {"OAuthLoginHandler"}
      [] cls = "GitHubLoginHandler" -> {"OAuthLoginHandler"}
      [] cls = "GitLabLoginHandler" -> {"OAuthLoginHandler"}
      [] cls = "MultiOAuthLoginHandler" -> {"OAuthLoginHandler"}
      [] cls = "GoogleOAuthHandler" -> {"OAuthCallbackHandler"}
      [] OTHER -> {}

NoRequest == [protocol |-> None, host |-> None, uri |-> None]

\* handler=None.
NoHandler == [class |-> "NoneType", request |-> NoRequest]

isinstance(handler, cls) == handler.class = cls \/ cls \in Bases(handler.class)

\* The login handler class of each built-in adapter.
LoginHandlerOf(k) ==
    CASE k = "google" -> "GoogleLoginHandler"
      [] k = "github" -> "GitHubLoginHandler"
      [] k = "gitlab" -> "GitLabLoginHandler"

\* The callback handler class of each built-in adapter: only google's
\* adapter has one of its own.
CallbackHandlerOf(k) ==
    CASE k = "google" -> "GoogleOAuthHandler"
      [] k = "github" -> "OAuthCallbackHandler"
      [] k = "gitlab" -> "OAuthCallbackHandler"

Protocols == {"http", "https"}
Hosts == {<<"hub.example">>}

\* hub.base_url: always ends with "/".  The third one contains "/login".
BaseUrls == {<<"/">>, <<"/", "hub", "/">>, <<"/", "login", "/">>}

LoginRoute(k) == <<"/", k, "/", "login">>
CallbackRoute(k) == <<"/", k, "/", "callback">>
ChooserRoute == <<"/", "login">>

\* The path a route is served under: the hub prefix joined with the route.
ServedPath(base_url, route) == base_url \o Tail(route)

Request(protocol, host, uri) == [protocol |-> protocol, host |-> host, uri |-> uri]

---------------------------------------------------------------------------
(* The adapters (external collaborators) *)

Adapter(k, callback_url, handlers) ==
    [client_id |-> <<k, "client_id">>,
     client_secret |-> <<k, "client_secret">>,
     scope |-> <<k, "scope">>,
     oauth_callback_url |-> callback_url,
     handlers |-> handlers]

\* What a built-in adapter's own get_handlers(app) yields, as a dict.
DefaultHandlers(k) ==
    [p \in {"/oauth_login", "/oauth_callback"} |->
        IF p = "/oauth_login" THEN LoginHandlerOf(k) ELSE CallbackHandlerOf(k)]

\* A callback URL an operator may configure for provider k.
ConfiguredUrl(k) == <<"https", "://", "idp.example", "/", k, "/", "cb">>

\* Another one for the same provider, set on the dispatcher's config.
ConfigSectionUrl(k) == <<"https", "://", "alt.example", "/", k, "/", "cb">>

Enabled(k) ==
    CASE k = "google" -> enable_google
      [] k = "github" -> enable_github
      [] k = "gitlab" -> enable_gitlab

AdapterOf(k) ==
    CASE k = "google" -> google_authenticator
      [] k = "github" -> github_authenticator
      [] k = "gitlab" -> gitlab_authenticator

\* The adapter traits are Instance traits with @default factories: the
\* variables google_authenticator, github_authenticator, gitlab_authenticator
\* hold what the factory builds from the configuration, _trait_values holds
\* which instance (numbered from 1) the trait has stored, NotBuilt before the
\* first access.
NotBuilt == 0

InitTraits ==
    /\ _trait_values = [k \in Providers |-> NotBuilt]
    /\ instances = [k \in Providers |-> {}]

\* @default('<k>_authenticator'): return self.<k>_class(), a new instance.
_default_authenticator(k) == Cardinality(instances[k]) + 1

access_authenticators_rebuilding(keys) ==
    /\ _trait_values' = [k \in Providers |->
            IF k \in keys
            THEN (IF instances[k] = {} THEN 1 ELSE 2)
            ELSE _trait_values[k]]
    /\ instances' = [k \in Providers |->
            IF k \in keys
            THEN instances[k] \cup {_trait_values'[k]}
            ELSE instances[k]]

\* self.<k>_authenticator read for each k in keys: the first read of a trait
\* runs its factory and stores the instance, later reads yield the stored one.
access_authenticators(keys) ==
    /\ _trait_values' = [k \in Providers |->
            IF k \in keys /\ _trait_values[k] = NotBuilt
            THEN _default_authenticator(k)
            ELSE _trait_values[k]]
    /\ instances' = [k \in Providers |->
            IF k \in keys
            THEN instances[k] \cup {_trait_values'[k]}
            ELSE instances[k]]

\* self.config.<name>: a section holding oauth_callback_url, or, when the
\* configuration never set it, a lazy value without that attribute.
LazyConfigValue == [lazy |-> TRUE]
ConfigSection(url) == [oauth_callback_url |-> url]
hasattr(obj, name) == name \in DOMAIN obj

---------------------------------------------------------------------------
(* MultiOAuthenticator *)

NoCred == [client_id |-> None, client_secret |-> None, scope |-> None]

\* The properties client_id, client_secret and scope.
client_id == __client_id
client_secret == __client_secret
scope == __scope

Cred == [client_id |-> client_id, client_secret |-> client_secret, scope |-> scope]

set_oauth_tokens_drops_scope(subauth) ==
    [client_id |-> subauth.client_id,
     client_secret |-> subauth.client_secret,
     scope |-> __scope]

set_oauth_tokens_keeps_secret(subauth) ==
    [client_id |-> subauth.client_id,
     client_secret |-> __client_secret,
     scope |-> subauth.scope]

\* The credential context after set_oauth_tokens(subauth).
set_oauth_tokens(subauth) ==
    [client_id |-> subauth.client_id,
     client_secret |-> subauth.client_secret,
     scope |-> subauth.scope]

Raised(error, cred) == [outcome |-> error, url |-> None, cred |-> cred]
Returned(url, cred) == [outcome |-> "return", url |-> url, cred |-> cred]

\* Lines 158-164: the callback URL rewritten from the request's own URI.
synthesize_callback_url(handler) ==
    <<handler.request.protocol, "://">> \o handler.request.host
        \o Replace(urlsplit_path(handler.request.uri),
                   <<"/", "login">>, <<"/", "callback">>)

\* get_callback_url from the gitlab test on.
get_callback_url_gitlab(handler, cred) ==
    LET is == isinstance(handler, "GitLabLoginHandler")
        c == IF is THEN set_oauth_tokens(gitlab_authenticator) ELSE cred
    IN  IF is /\ ~hasattr(config.gitlab_authenticator, "oauth_callback_url")
        THEN Raised("AttributeError", c)
        ELSE IF is /\ Truthy(config.gitlab_authenticator.oauth_callback_url)
        THEN Returned(config.gitlab_authenticator.oauth_callback_url, c)
        ELSE Returned(synthesize_callback_url(handler), c)

\* get_callback_url from the github test on.
get_callback_url_github(handler, cred) ==
    LET is == isinstance(handler, "GitHubLoginHandler")
        c == IF is THEN set_oauth_tokens(github_authenticator) ELSE cred
    IN  IF is /\ ~hasattr(config.github_authenticator, "oauth_callback_url")
        THEN Raised("AttributeError", c)
        ELSE IF is /\ Truthy(config.github_authenticator.oauth_callback_url)
        THEN Returned(config.github_authenticator.oauth_callback_url, c)
        ELSE get_callback_url_gitlab(handler, c)

\* get_callback_url for a handler that is not None.
get_callback_url_google(handler, cred) ==
    LET is == isinstance(handler, "GoogleLoginHandler")
        c == IF is THEN set_oauth_tokens(google_authenticator) ELSE cred
    IN  IF is /\ Truthy(google_authenticator.oauth_callback_url)
        THEN Returned(google_authenticator.oauth_callback_url, c)
        ELSE get_callback_url_github(handler, c)

get_callback_url_no_handler_test(handler) ==
    get_callback_url_google(handler, Cred)

get_callback_url_caching_github(handler) ==
    IF handler = NoHandler
    THEN Raised("ValueError", Cred)
    ELSE IF \E k \in Providers : isinstance(handler, LoginHandlerOf(k))
    THEN get_callback_url_google(handler, Cred)
    ELSE get_callback_url_google(handler, set_oauth_tokens(github_authenticator))

\* get_callback_url(handler): the outcome, the URL returned and the
\* credential context it leaves behind.
get_callback_url(handler) ==
    IF handler = NoHandler
    THEN Raised("ValueError", Cred)
    ELSE get_callback_url_google(handler, Cred)

\* The providers whose adapter trait get_callback_url(handler) reads.
get_callback_url_reads(handler) ==
    IF handler = NoHandler THEN {}
    ELSE {k \in Providers : isinstance(handler, LoginHandlerOf(k))}

\* What provider k's own authenticate yields when the identity provider
\* answers `answer`: an identity, None (consent denied) or an error.
sub_authenticate(k, handler, answer) == <<answer, k>>

\* authenticate(handler, data): the adapter the call is forwarded to.
authenticate_delegate(handler) ==
    IF isinstance(handler, "GoogleOAuthHandler") THEN "google" ELSE "github"

\* The awaitable an adapter's authenticate coroutine hands back at once;
\* awaiting it yields `outcome` (or raises, when the outcome is an error).
Future(outcome) == <<"Future">> \o outcome

\* authenticate(handler, data): a coroutine without a yield, so what it
\* resolves to is the very object its return statement was given, which is
\* the adapter's awaitable and not what that awaitable yields.
authenticate(handler, answer) ==
    LET k == authenticate_delegate(handler)
    IN  [delegate |-> k, result |-> Future(sub_authenticate(k, handler, answer))]

provider_routes_ignoring_enable(k) ==
    LET handlers == AdapterOf(k).handlers
    IN  IF {"/oauth_login", "/oauth_callback"} \subseteq DOMAIN handlers
        THEN [outcome |-> "return",
              routes |-> <<[path |-> LoginRoute(k),
                            handler |-> handlers["/oauth_login"]],
                           [path |-> CallbackRoute(k),
                            handler |-> handlers["/oauth_callback"]]>>]
        ELSE [outcome |-> "KeyError", routes |-> <<>>]

\* The two routes get_handlers adds for provider k, or KeyError when the
\* adapter's own handler map lacks '/oauth_login' or '/oauth_callback'.
provider_routes(k) ==
    LET handlers == AdapterOf(k).handlers
    IN  IF ~Enabled(k) THEN [outcome |-> "return", routes |-> <<>>]
        ELSE IF {"/oauth_login", "/oauth_callback"} \subseteq DOMAIN handlers
        THEN [outcome |-> "return",
              routes |-> <<[path |-> LoginRoute(k),
                            handler |-> handlers["/oauth_login"]],
                           [path |-> CallbackRoute(k),
                            handler |-> handlers["/oauth_callback"]]>>]
        ELSE [outcome |-> "KeyError", routes |-> <<>>]

\* get_handlers(app): the chooser route, then each enabled provider's two
\* routes in the order google, github, gitlab.
get_handlers ==
    LET g == provider_routes("google")
        h == provider_routes("github")
        l == provider_routes("gitlab")
    IN  IF \E r \in {g, h, l} : r.outcome = "KeyError"
        THEN [outcome |-> "KeyError", routes |-> <<>>]
        ELSE [outcome |-> "return",
              routes |-> <<[path |-> ChooserRoute,
                            handler |-> "MultiOAuthLoginHandler"]>>
                         \o g.routes \o h.routes \o l.routes]

\* The providers whose adapter trait get_handlers reads: the enabled ones,
\* up to the first whose handler map raises KeyError.
get_handlers_reads ==
    LET ok(k) == provider_routes(k).outcome = "return"
    IN  {k \in Providers :
           /\ Enabled(k)
           /\ k = "github" => ok("google")
           /\ k = "gitlab" => ok("google") /\ ok("github")}

---------------------------------------------------------------------------
(* MultiOAuthLoginHandler *)

\* The inherited login_url(base_url) of the dispatcher.
login_url(base_url) == base_url \o <<"oauth_login">>

\* BaseHandler.get_next_url(user): the next argument, or the hub's home.
get_next_url(request) ==
    LET nextval == get_argument(request.arguments, "next", Empty)
    IN  IF Truthy(nextval) THEN nextval ELSE request.base_url \o <<"home">>

\* _render(login_error): the chooser page handed to the template.
_render(request, login_error) ==
    LET nextval == get_argument(request.arguments, "next", Empty)
    IN  [template |-> "nlm/login.html",
         next |-> url_escape(nextval),
         multiauth |-> [k \in Providers |-> [enabled |-> Enabled(k)]],
         login_error |-> login_error,
         authenticator_login_url |->
             url_concat(login_url(request.base_url), nextval)]

Redirect(url, permanent) == [effect |-> "redirect", url |-> url, permanent |-> permanent]
Finish(page) == [effect |-> "finish", page |-> page]
SetLoginCookie(user) == [effect |-> "set_login_cookie", user |-> user]

\* The login URL post() builds for provider k.
provider_login_url(request, k) ==
    <<request.protocol, "://">> \o request.host \o request.base_url
        \o <<k, "/", "login">>

post_without_enable_test(request) ==
    LET nextval == get_argument(request.arguments, "next", Empty)
        chosen(k) == Truthy(get_argument(request.arguments, "login_" \o k, None))
        go(k) == <<Redirect(url_concat(provider_login_url(request, k), nextval), FALSE)>>
    IN  IF chosen("google") THEN go("google")
        ELSE IF chosen("github") THEN go("github")
        ELSE IF chosen("gitlab") THEN go("gitlab")
        ELSE <<Finish(_render(request, <<"Unknown or missing authenticator">>))>>

post_redirects_when_unknown(request) ==
    LET nextval == get_argument(request.arguments, "next", Empty)
        chosen(k) == Truthy(get_argument(request.arguments, "login_" \o k, None))
        go(k) == <<Redirect(url_concat(provider_login_url(request, k), nextval), FALSE)>>
    IN  IF enable_google /\ chosen("google") THEN go("google")
        ELSE IF enable_github /\ chosen("github") THEN go("github")
        ELSE IF enable_gitlab /\ chosen("gitlab") THEN go("gitlab")
        ELSE go("google")

\* post(): what the handler does to the response, in order.
post(request) ==
    LET nextval == get_argument(request.arguments, "next", Empty)
        chosen(k) == Truthy(get_argument(request.arguments, "login_" \o k, None))
        go(k) == <<Redirect(url_concat(provider_login_url(request, k), nextval), FALSE)>>
    IN  IF enable_google /\ chosen("google") THEN go("google")
        ELSE IF enable_github /\ chosen("github") THEN go("github")
        ELSE IF enable_gitlab /\ chosen("gitlab") THEN go("gitlab")
        ELSE <<Finish(_render(request, <<"Unknown or missing authenticator">>))>>

get_redirects_before_cookie(request) ==
    IF request.current_user # None
    THEN <<Redirect(get_next_url(request), FALSE),
           SetLoginCookie(request.current_user)>>
    ELSE <<Finish(_render(request, None))>>

\* get(): what the handler does to the response, in order.
get(request) ==
    IF request.current_user # None
    THEN <<SetLoginCookie(request.current_user),
           Redirect(get_next_url(request), FALSE)>>
    ELSE <<Finish(_render(request, None))>>

---------------------------------------------------------------------------
(* The dispatcher as the hosting system calls it *)

Attempts == 1..NumAttempts

\* A login attempt: where it stands, the provider chosen, the URL the browser
\* was sent to, the callback URL resolved for it, the credentials read from
\* the dispatcher for its exchange, and how its callback ended; `started` is
\* the dispatcher's credential context when the attempt's POST arrived.
NewAttempt == [pc |-> "choosing", provider |-> "none", location |-> None,
               callback_url |-> None, overtaken |-> FALSE, started |-> NoCred,
               read |-> FALSE, used |-> NoCred,
               delegate |-> "none", result |-> None]

\* Every route get_handlers can register, with the class bound to it.
AllRoutes ==
    {[path |-> ChooserRoute, handler |-> "MultiOAuthLoginHandler"]}
    \cup {[path |-> LoginRoute(k), handler |-> LoginHandlerOf(k)] : k \in Providers}
    \cup {[path |-> CallbackRoute(k), handler |-> CallbackHandlerOf(k)] : k \in Providers}

\* A handler instance serving request `request`.
Handler(class, request) == [class |-> class, request |-> request]

HubRequest(route, base_url, query) ==
    Request("https", <<"hub.example">>, ServedPath(base_url, route) \o query)

\* The handlers the hosting system may pass: an instance of each routed
\* class, serving a request for its own route.
Handlers ==
    {Handler(r.handler, HubRequest(r.path, <<"/", "hub", "/">>, <<>>)) : r \in AllRoutes}

Answers == {"identity", "none", "error"}

AdapterUrls(k) == {Empty, ConfiguredUrl(k)}
ConfigValues(k) ==
    {LazyConfigValue, ConfigSection(Empty), ConfigSection(ConfigSectionUrl(k))}

InitCred ==
    /\ __client_id = None
    /\ __client_secret = None
    /\ __scope = None

InitEnable ==
    /\ enable_google \in BOOLEAN
    /\ enable_github \in BOOLEAN
    /\ enable_gitlab \in BOOLEAN

InitConfig ==
    \E h \in ConfigValues("github"), l \in ConfigValues("gitlab") :
        config = [github_authenticator |-> h, gitlab_authenticator |-> l]

Init ==
    /\ InitEnable
    /\ \E u \in AdapterUrls("google") :
           google_authenticator = Adapter("google", u, DefaultHandlers("google"))
    /\ github_authenticator = Adapter("github", Empty, DefaultHandlers("github"))
    /\ gitlab_authenticator = Adapter("gitlab", Empty, DefaultHandlers("gitlab"))
    /\ InitConfig
    /\ InitCred
    /\ InitTraits
    /\ last = [op |-> "init"]
    /\ attempts = [a \in Attempts |-> NewAttempt]

SetCred(cred) ==
    /\ __client_id' = cred.client_id
    /\ __client_secret' = cred.client_secret
    /\ __scope' = cred.scope

\* The hosting system (or a login handler) asks for the callback URL.
call_get_callback_url(candidates) ==
    \E handler \in candidates :
        LET r == get_callback_url(handler)
        IN  /\ SetCred(r.cred)
            /\ last' = [op |-> "get_callback_url", handler |-> handler,
                        before |-> Cred, outcome |-> r.outcome, url |-> r.url]
            /\ access_authenticators(get_callback_url_reads(handler))
            /\ UNCHANGED <<config_vars, attempts>>

\* The hosting system asks the dispatcher to authenticate a request.
call_authenticate ==
    \E handler \in Handlers \cup {NoHandler}, answer \in Answers :
        LET r == authenticate(handler, answer)
        IN  /\ last' = [op |-> "authenticate", handler |-> handler,
                        before |-> Cred, answer |-> answer,
                        delegate |-> r.delegate, result |-> r.result]
            /\ access_authenticators({r.delegate})
            /\ UNCHANGED <<config_vars, cred_vars, attempts>>

Next == call_get_callback_url(Handlers \cup {NoHandler}) \/ call_authenticate

Spec == Init /\ [][Next]_vars

---------------------------------------------------------------------------
(* Callback URL resolution for login requests *)

Queries == {<<>>, <<"?", "next", "=", "%2F", "foo">>}

\* Each provider's login handler, serving a login request under any prefix.
LoginHandlers ==
    {Handler(LoginHandlerOf(k),
             Request(p, h, ServedPath(b, LoginRoute(k)) \o q)) :
        k \in Providers, p \in Protocols, h \in Hosts, b \in BaseUrls, q \in Queries}

UrlInit ==
    /\ enable_google = TRUE
    /\ enable_github = TRUE
    /\ enable_gitlab = TRUE
    /\ \E u \in AdapterUrls("google") :
           google_authenticator = Adapter("google", u, DefaultHandlers("google"))
    /\ \E u \in AdapterUrls("github") :
           github_authenticator = Adapter("github", u, DefaultHandlers("github"))
    /\ \E u \in AdapterUrls("gitlab") :
           gitlab_authenticator = Adapter("gitlab", u, DefaultHandlers("gitlab"))
    /\ InitConfig
    /\ InitCred
    /\ InitTraits
    /\ last = [op |-> "init"]
    /\ attempts = [a \in Attempts |-> NewAttempt]

UrlNext == call_get_callback_url(LoginHandlers)

UrlSpec == UrlInit /\ [][UrlNext]_vars

---------------------------------------------------------------------------
(* The route table *)

\* The handler maps an adapter class may expose: the built-in one, one
\* lacking a handler, one with a handler more.
HandlerMaps(k) ==
    {DefaultHandlers(k),
     [p \in {"/oauth_login"} |-> LoginHandlerOf(k)],
     [p \in {"/oauth_callback"} |-> CallbackHandlerOf(k)],
     [p \in {"/oauth_login", "/oauth_callback", "/logout"} |->
        CASE p = "/oauth_login" -> LoginHandlerOf(k)
          [] p = "/oauth_callback" -> CallbackHandlerOf(k)
          [] OTHER -> "LogoutHandler"]}

DefaultConfig ==
    config = [github_authenticator |-> LazyConfigValue,
              gitlab_authenticator |-> LazyConfigValue]

HandlersInit ==
    /\ InitEnable
    /\ \E m \in HandlerMaps("google") :
           google_authenticator = Adapter("google", Empty, m)
    /\ \E m \in HandlerMaps("github") :
           github_authenticator = Adapter("github", Empty, m)
    /\ \E m \in HandlerMaps("gitlab") :
           gitlab_authenticator = Adapter("gitlab", Empty, m)
    /\ DefaultConfig
    /\ InitCred
    /\ InitTraits
    /\ last = [op |-> "init"]
    /\ attempts = [a \in Attempts |-> NewAttempt]

\* The hosting system builds its route table.
call_get_handlers ==
    /\ last' = [op |-> "get_handlers", outcome |-> get_handlers.outcome,
                routes |-> get_handlers.routes]
    /\ access_authenticators(get_handlers_reads)
    /\ UNCHANGED <<config_vars, cred_vars, attempts>>

HandlersNext == call_get_handlers

HandlersSpec == HandlersInit /\ [][HandlersNext]_vars

\* The dispatcher of Spec with the route table built at any moment as well.
RegistryNext ==
    \/ call_get_handlers
    \/ call_get_callback_url(Handlers \cup {NoHandler})
    \/ call_authenticate

RegistrySpec == Init /\ [][RegistryNext]_vars

---------------------------------------------------------------------------
(* The chooser page *)

FieldValues == {None, Empty, <<" ">>, <<"1">>}
NextValues == {None, <<"/", "foo">>, <<" ", "/", "foo">>}
Users == {None, <<"alice">>}

Arguments(nextval, google, github, gitlab) ==
    [name \in {"next", "login_google", "login_github", "login_gitlab"} |->
        CASE name = "next" -> nextval
          [] name = "login_google" -> google
          [] name = "login_github" -> github
          [] name = "login_gitlab" -> gitlab]

ChooserRequest(protocol, host, base_url, arguments, user) ==
    [protocol |-> protocol, host |-> host, base_url |-> base_url,
     arguments |-> arguments, current_user |-> user]

PostRequests ==
    {ChooserRequest(p, h, b, Arguments(n, f1, f2, f3), None) :
        p \in Protocols, h \in Hosts, b \in BaseUrls, n \in NextValues,
        f1 \in FieldValues, f2 \in FieldValues, f3 \in FieldValues}

GetRequests ==
    {ChooserRequest(p, h, b, Arguments(n, None, None, None), u) :
        p \in Protocols, h \in Hosts, b \in BaseUrls, n \in NextValues,
        u \in Users}

\* One request to /login arrives at a dispatcher configured in any way.
ChooserInit ==
    /\ InitEnable
    /\ google_authenticator = Adapter("google", Empty, DefaultHandlers("google"))
    /\ github_authenticator = Adapter("github", Empty, DefaultHandlers("github"))
    /\ gitlab_authenticator = Adapter("gitlab", Empty, DefaultHandlers("gitlab"))
    /\ DefaultConfig
    /\ InitCred
    /\ InitTraits
    /\ \/ \E r \in PostRequests : last = [op |-> "request", method |-> "POST", request |-> r]
       \/ \E r \in GetRequests : last = [op |-> "request", method |-> "GET", request |-> r]
    /\ attempts = [a \in Attempts |-> NewAttempt]

handle_post ==
    /\ last.op = "request"
    /\ last.method = "POST"
    /\ last' = [op |-> "post", request |-> last.request,
                response |-> post(last.request)]
    /\ UNCHANGED <<config_vars, cred_vars, trait_vars, attempts>>

handle_get ==
    /\ last.op = "request"
    /\ last.method = "GET"
    /\ last' = [op |-> "get", request |-> last.request,
                response |-> get(last.request)]
    /\ UNCHANGED <<config_vars, cred_vars, trait_vars, attempts>>

ChooserNext == handle_post \/ handle_get

ChooserSpec == ChooserInit /\ [][ChooserNext]_vars

---------------------------------------------------------------------------
(* Login attempts, end to end *)

FlowBase == <<"/", "hub", "/">>

\* The provider whose route the path is served under, or "none".
resolveFromPath(base_url, path) ==
    IF \E k \in Providers :
           path \in {ServedPath(base_url, LoginRoute(k)),
                     ServedPath(base_url, CallbackRoute(k))}
    THEN CHOOSE k \in Providers :
           path \in {ServedPath(base_url, LoginRoute(k)),
                     ServedPath(base_url, CallbackRoute(k))}
    ELSE "none"

\* The chooser form as a browser posts it: one provider's button, or none.
FlowPostRequests ==
    {ChooserRequest("https", <<"hub.example">>, FlowBase,
                    Arguments(None,
                              IF k = "google" THEN <<"1">> ELSE None,
                              IF k = "github" THEN <<"1">> ELSE None,
                              IF k = "gitlab" THEN <<"1">> ELSE None), None) :
        k \in Providers \cup {"none"}}

\* The path of an absolute URL scheme://host/path?query.
UrlPath(url) == urlsplit_path(SubSeq(url, 4, Len(url)))

\* The class the hosting system instantiates for a path: the one
\* get_handlers registered for it, or "none" (404).
RoutedClass(path) ==
    LET routes == get_handlers.routes
        hits == {i \in DOMAIN routes : ServedPath(FlowBase, routes[i].path) = path}
    IN  IF hits = {} THEN "none" ELSE routes[CHOOSE i \in hits : TRUE].handler

FlowInit ==
    /\ InitEnable
    /\ google_authenticator = Adapter("google", Empty, DefaultHandlers("google"))
    /\ github_authenticator = Adapter("github", Empty, DefaultHandlers("github"))
    /\ gitlab_authenticator = Adapter("gitlab", Empty, DefaultHandlers("gitlab"))
    /\ \E h \in {LazyConfigValue, ConfigSection(Empty)},
          l \in {LazyConfigValue, ConfigSection(Empty)} :
           config = [github_authenticator |-> h, gitlab_authenticator |-> l]
    /\ InitCred
    /\ InitTraits
    /\ last = [op |-> "init"]
    /\ attempts = [a \in Attempts |-> NewAttempt]

\* POST /login: the browser submits the chooser form and, on a redirect,
\* is sent to the provider's login path.
choose(a) ==
    /\ attempts[a].pc = "choosing"
    /\ \E request \in FlowPostRequests :
           LET response == post(request)
           IN  /\ response[1].effect = "redirect"
               /\ attempts' = [attempts EXCEPT
                      ![a].pc = "redirected",
                      ![a].started = Cred,
                      ![a].location = response[1].url,
                      ![a].provider = resolveFromPath(FlowBase, UrlPath(response[1].url))]
    /\ UNCHANGED <<config_vars, cred_vars, trait_vars, last>>

\* GET /<k>/login: the provider's login handler asks the dispatcher for
\* the callback URL, which caches the provider's credentials.
login(a) ==
    /\ attempts[a].pc = "redirected"
    /\ LET class == RoutedClass(UrlPath(attempts[a].location))
           handler == Handler(class, Request("https", <<"hub.example">>,
                                             SubSeq(attempts[a].location, 4,
                                                    Len(attempts[a].location))))
           r == get_callback_url(handler)
       IN  /\ class # "none"
           /\ SetCred(r.cred)
           /\ access_authenticators(get_callback_url_reads(handler))
           /\ attempts' = [b \in Attempts |->
                  IF b = a
                  THEN [attempts[a] EXCEPT
                          !.pc = IF r.outcome = "return" THEN "awaiting" ELSE "failed",
                          !.callback_url = r.url]
                  ELSE [attempts[b] EXCEPT
                          !.overtaken = attempts[b].overtaken
                              \/ (/\ attempts[b].pc = "awaiting"
                                  /\ ~attempts[b].read
                                  /\ r.outcome = "return"
                                  /\ attempts[b].provider # attempts[a].provider)]]
    /\ UNCHANGED <<config_vars, last>>

\* The generic OAuth2 layer reads the dispatcher's client_id, client_secret
\* and scope for this attempt's exchange.
exchange(a) ==
    /\ attempts[a].pc = "awaiting"
    /\ ~attempts[a].read
    /\ attempts' = [attempts EXCEPT ![a].read = TRUE, ![a].used = Cred]
    /\ UNCHANGED <<config_vars, cred_vars, trait_vars, last>>

\* GET /<k>/callback: the identity provider sends the browser back and the
\* callback handler asks the dispatcher to authenticate.  The attempt ends as
\* the delegated adapter's exchange ends (identity, None or error); `result`
\* is what the dispatcher's own coroutine resolved to.
callback(a) ==
    /\ attempts[a].pc = "awaiting"
    /\ attempts[a].read
    /\ \E answer \in Answers :
           LET class == RoutedClass(UrlPath(attempts[a].callback_url))
               handler == Handler(class, Request("https", <<"hub.example">>,
                                                 SubSeq(attempts[a].callback_url, 4,
                                                        Len(attempts[a].callback_url))))
               r == authenticate(handler, answer)
           IN  /\ class # "none"
               /\ access_authenticators({r.delegate})
               /\ attempts' = [attempts EXCEPT
                      ![a].pc = CASE answer = "identity" -> "authenticated"
                                  [] answer = "none" -> "denied"
                                  [] answer = "error" -> "failed",
                      ![a].delegate = r.delegate,
                      ![a].result = r.result]
    /\ UNCHANGED <<config_vars, cred_vars, last>>

FlowNext == \E a \in Attempts : choose(a) \/ login(a) \/ exchange(a) \/ callback(a)

FlowSpec == FlowInit /\ [][FlowNext]_vars

---------------------------------------------------------------------------
(* Every entry point on one dispatcher *)

FlowGetRequests ==
    {ChooserRequest("https", <<"hub.example">>, FlowBase,
                    Arguments(None, None, None, None), u) : u \in Users}

\* A request to /login arrives.
receive ==
    /\ \/ \E r \in FlowPostRequests :
             last' = [op |-> "request", method |-> "POST", request |-> r]
       \/ \E r \in FlowGetRequests :
             last' = [op |-> "request", method |-> "GET", request |-> r]
    /\ UNCHANGED <<config_vars, cred_vars, trait_vars, attempts>>

FrameNext ==
    \/ call_get_handlers
    \/ call_get_callback_url(Handlers \cup {NoHandler})
    \/ call_authenticate
    \/ receive
    \/ handle_post
    \/ handle_get

FrameSpec == Init /\ [][FrameNext]_vars

---------------------------------------------------------------------------
(* Properties of the dispatcher *)

\* The handler is an instance of class `handler.class` that get_handlers
\* registered under `route`, serving a request for that route.
RegisteredUnder(handler, route) ==
    /\ get_handlers.outcome = "return"
    /\ \E i \in DOMAIN get_handlers.routes :
           /\ get_handlers.routes[i].path = route
           /\ get_handlers.routes[i].handler = handler.class
    /\ \E b \in BaseUrls : urlsplit_path(handler.request.uri) = ServedPath(b, route)

\* The handler has the shape of one of provider k's two handlers.
MatchesProvider(handler, k) ==
    \E p \in DOMAIN AdapterOf(k).handlers : AdapterOf(k).handlers[p] = handler.class

MatchesNoEnabledProvider(handler) ==
    \A k \in Providers : Enabled(k) => ~MatchesProvider(handler, k)

AdapterCred(k) ==
    [client_id |-> AdapterOf(k).client_id,
     client_secret |-> AdapterOf(k).client_secret,
     scope |-> AdapterOf(k).scope]

\* C2: authenticate, invoked by the handler registered under /<k>/callback
\* of an enabled provider k, is forwarded to provider k's own authenticate.
C2_ForwardedToOwner ==
    \A k \in Providers :
        (/\ last.op = "authenticate"
         /\ Enabled(k)
         /\ RegisteredUnder(last.handler, CallbackRoute(k)))
        => last.delegate = k

\* C3: authenticate with a handler whose shape matches no enabled provider
\* forwards to no provider's authenticate.
C3_NoDefaultProvider ==
    (/\ last.op = "authenticate"
     /\ MatchesNoEnabledProvider(last.handler))
    => last.delegate = "none"

\* C8: get_callback_url with a handler that matches no enabled provider
\* fails with a routing error and returns no URL.
C8_UnroutableFails ==
    (/\ last.op = "get_callback_url"
     /\ last.handler # NoHandler
     /\ MatchesNoEnabledProvider(last.handler))
    => (last.outcome = "UnroutableRequestError" /\ last.url = None)

\* C9: get_callback_url without a handler fails, returns no URL and leaves
\* the credential context as it was.
C9_NoHandlerFails ==
    (/\ last.op = "get_callback_url"
     /\ last.handler = NoHandler)
    => (/\ last.outcome = "ValueError"
        /\ last.url = None
        /\ Cred = last.before)

\* C9's case: a call without a handler after the context had been set.
C9_Witness ==
    /\ last.op = "get_callback_url"
    /\ last.handler = NoHandler
    /\ last.before = AdapterCred("gitlab")

\* C5: when get_callback_url returns for a login handler of provider k, the
\* credential context is provider k's, whichever URL was returned.
C5_ContextIsOwners ==
    \A k \in Providers :
        (/\ last.op = "get_callback_url"
         /\ last.outcome = "return"
         /\ last.handler.class = LoginHandlerOf(k))
        => Cred = AdapterCred(k)

\* C5's case: a synthesized URL returned for gitlab while the context held
\* google's credentials.
C5_Witness ==
    /\ last.op = "get_callback_url"
    /\ last.outcome = "return"
    /\ last.handler.class = "GitLabLoginHandler"
    /\ last.url = synthesize_callback_url(last.handler)
    /\ last.before = AdapterCred("google")

\* C6: for every provider k, get_callback_url for a login handler of k
\* returns k's adapter's configured callback URL whenever the adapter has
\* one, and a synthesized URL only when the adapter has none.
C6_AdapterUrlWins ==
    \A k \in Providers :
        (/\ last.op = "get_callback_url"
         /\ last.handler.class = LoginHandlerOf(k))
        => /\ Truthy(AdapterOf(k).oauth_callback_url)
              => (/\ last.outcome = "return"
                  /\ last.url = AdapterOf(k).oauth_callback_url)
           /\ (/\ last.outcome = "return"
               /\ last.url = synthesize_callback_url(last.handler))
              => ~Truthy(AdapterOf(k).oauth_callback_url)

\* C7: the URL synthesized from scheme://host<hubPrefix>/<k>/login is
\* scheme://host<hubPrefix>/<k>/callback, and its path resolves to k.
C7_SynthesisExact ==
    \A k \in Providers, b \in BaseUrls :
        (/\ last.op = "get_callback_url"
         /\ last.outcome = "return"
         /\ last.handler.class = LoginHandlerOf(k)
         /\ urlsplit_path(last.handler.request.uri) = ServedPath(b, LoginRoute(k))
         /\ last.url \notin {ConfiguredUrl(k), ConfigSectionUrl(k)})
        => /\ last.url = <<last.handler.request.protocol, "://">>
                            \o last.handler.request.host
                            \o ServedPath(b, CallbackRoute(k))
           /\ resolveFromPath(b, SubSeq(last.url, 4, Len(last.url))) = k

---------------------------------------------------------------------------
(* Properties of the route table and the chooser page *)

EnabledProviders == {k \in Providers : Enabled(k)}

RouteSet(routes) == {routes[i] : i \in DOMAIN routes}

\* C4: get_handlers returns the chooser route plus, for each enabled
\* provider k, /<k>/login and /<k>/callback bound to k's own handlers:
\* 2|P| + 1 routes, none of a disabled provider.
C4_ExactRoutes ==
    (last.op = "get_handlers" /\ last.outcome = "return")
    => /\ Len(last.routes) = 2 * Cardinality(EnabledProviders) + 1
       /\ RouteSet(last.routes) =
            {[path |-> ChooserRoute, handler |-> "MultiOAuthLoginHandler"]}
            \cup {[path |-> LoginRoute(k),
                   handler |-> AdapterOf(k).handlers["/oauth_login"]] :
                     k \in EnabledProviders}
            \cup {[path |-> CallbackRoute(k),
                   handler |-> AdapterOf(k).handlers["/oauth_callback"]] :
                     k \in EnabledProviders}
       /\ \A i \in DOMAIN last.routes, k \in Providers \ EnabledProviders :
            last.routes[i].path \notin {LoginRoute(k), CallbackRoute(k)}

\* C4's case: a route table built with github disabled and the two others
\* enabled.
C4_Witness ==
    /\ last.op = "get_handlers"
    /\ last.outcome = "return"
    /\ EnabledProviders = {"google", "gitlab"}
    /\ Len(last.routes) = 5

FieldPresent(request, k) == request.arguments["login_" \o k] # None

FieldFilled(request, k) ==
    /\ request.arguments["login_" \o k] # None
    /\ \E i \in DOMAIN request.arguments["login_" \o k] :
           request.arguments["login_" \o k][i] # " "

\* The first provider, in the order google, github, gitlab, among
\* `eligible`; "none" when there is none.
FirstOf(eligible) ==
    IF \E i \in 1..3 : ProviderOrder[i] \in eligible
    THEN ProviderOrder[CHOOSE i \in 1..3 :
            /\ ProviderOrder[i] \in eligible
            /\ \A j \in 1..(i - 1) : ProviderOrder[j] \notin eligible]
    ELSE "none"

\* The enabled providers whose field is present in the request.
PresentAndEnabled(request) ==
    {k \in Providers : Enabled(k) /\ FieldPresent(request, k)}

\* The enabled providers whose field is present with a value that is not
\* blank.
FilledAndEnabled(request) ==
    {k \in Providers : Enabled(k) /\ FieldFilled(request, k)}

\* The posted next value as it appears in the query string: stripped of the
\* whitespace around it and percent-encoded.
PostedNext(request) ==
    CASE request.arguments["next"] = None -> <<>>
      [] request.arguments["next"] = <<"/", "foo">> -> <<"%2F", "foo">>
      [] request.arguments["next"] = <<" ", "/", "foo">> -> <<"%2F", "foo">>

\* <scheme>://<host><hubPrefix>/<k>/login?next=<next>
ExpectedRedirect(request, k) ==
    [effect |-> "redirect",
     url |-> <<request.protocol, "://">> \o request.host \o request.base_url
                \o <<k, "/", "login", "?", "next", "=">> \o PostedNext(request),
     permanent |-> FALSE]

\* C10, as claimed: POST /login issues exactly one non-permanent redirect,
\* to the login path of the first enabled provider whose field is present.
C10_FirstPresentField ==
    (last.op = "post" /\ PresentAndEnabled(last.request) # {})
    => last.response =
         <<ExpectedRedirect(last.request, FirstOf(PresentAndEnabled(last.request)))>>

\* C10, amended: POST /login issues exactly one non-permanent redirect, to
\* the login path of the first enabled provider whose field is present with
\* a value that is not blank.
C10_FirstFilledField ==
    (last.op = "post" /\ FilledAndEnabled(last.request) # {})
    => last.response =
         <<ExpectedRedirect(last.request, FirstOf(FilledAndEnabled(last.request)))>>

\* C10's case: all three fields submitted, google disabled, next posted.
C10_Witness ==
    /\ last.op = "post"
    /\ ~enable_google /\ enable_github /\ enable_gitlab
    /\ \A k \in Providers : FieldFilled(last.request, k)
    /\ last.request.arguments["next"] = <<"/", "foo">>
    /\ last.response = <<ExpectedRedirect(last.request, "github")>>

---------------------------------------------------------------------------
(* Properties of concurrent login attempts *)

\* C1: when attempt A resolves its callback URL, then an attempt for
\* another provider resolves its own, then A performs its exchange, the
\* credentials A's exchange reads from the dispatcher are A's provider's.
C1_ExchangeUsesOwnCredentials ==
    \A a \in Attempts :
        (attempts[a].read /\ attempts[a].overtaken)
        => attempts[a].used = AdapterCred(attempts[a].provider)

---------------------------------------------------------------------------
\* C11: a POST to /login that carries no field of an enabled provider (no
\* recognised field at all, or only fields of disabled providers) is answered
\* by rendering the chooser again with the login error 'Unknown or missing
\* authenticator', as a normal response: one finish, no redirect.
UnknownAuthenticator == <<"Unknown or missing authenticator">>

C11_UnknownProviderRerenders ==
    (last.op = "post" /\ PresentAndEnabled(last.request) = {}) =>
        /\ Len(last.response) = 1
        /\ last.response[1].effect = "finish"
        /\ last.response[1].page.template = "nlm/login.html"
        /\ last.response[1].page.login_error = UnknownAuthenticator
        /\ \A i \in DOMAIN last.response : last.response[i].effect # "redirect"

\* Only the field of a disabled provider was posted, and the chooser came back.
C11_Witness ==
    /\ last.op = "post"
    /\ ~enable_google /\ enable_github
    /\ FieldFilled(last.request, "google")
    /\ PresentAndEnabled(last.request) = {}
    /\ last.response[1].effect = "finish"

---------------------------------------------------------------------------
\* C12: the outcome of the dispatcher's authenticate is exactly the outcome of
\* the delegated provider's authenticate, unchanged: an identity as that
\* identity, None as None, an error as that same error.
C12_OutcomeUnchanged ==
    last.op = "authenticate" =>
        last.result = sub_authenticate(last.delegate, last.handler, last.answer)

---------------------------------------------------------------------------
\* C13: get_handlers fails, and returns no route table, whenever an enabled
\* provider's adapter does not expose exactly a login handler and a callback
\* handler: when one of the two is missing, and when it exposes more.
ExposesExactlyTwo(k) ==
    DOMAIN AdapterOf(k).handlers = {"/oauth_login", "/oauth_callback"}

C13_NotExactlyTwoFails ==
    (/\ last.op = "get_handlers"
     /\ \E k \in EnabledProviders : ~ExposesExactlyTwo(k))
    => /\ last.outcome # "return"
       /\ last.routes = <<>>

---------------------------------------------------------------------------
\* C14: for every provider, the adapter instance is constructed at most once
\* per dispatcher, and every access to it, from get_handlers, get_callback_url
\* or authenticate in any order, yields that same instance.
C14_OneInstancePerProvider ==
    \A k \in Providers :
        /\ _trait_values[k] \in {NotBuilt, 1}
        /\ instances[k] \subseteq {1}
        /\ _trait_values[k] # NotBuilt => instances[k] = {_trait_values[k]}

\* authenticate read google's adapter after get_callback_url had read it
\* (the context holds google's credentials), and github's and gitlab's
\* adapters have been read too.
C14_Witness ==
    /\ last.op = "authenticate"
    /\ last.delegate = "google"
    /\ Cred = AdapterCred("google")
    /\ \A k \in Providers : instances[k] = {1}

---------------------------------------------------------------------------
\* C15: GET /login has exactly two outcomes.  With a valid session the login
\* cookie is refreshed and then a non-permanent redirect to the post-login
\* target (the next argument, else the hub's home) is issued, and the chooser
\* is not rendered.  Otherwise the chooser page is rendered with one enabled
\* flag per provider, and no cookie is set and no redirect issued.
Effects(response) == {response[i].effect : i \in DOMAIN response}

\* The next argument of the request as the handler sees it: stripped of the
\* whitespace around it, empty when absent.
NextArgument(request) ==
    CASE request.arguments["next"] = None -> <<>>
      [] request.arguments["next"] = <<"/", "foo">> -> <<"/", "foo">>
      [] request.arguments["next"] = <<" ", "/", "foo">> -> <<"/", "foo">>

C15_GetTwoOutcomes ==
    last.op = "get" =>
        IF last.request.current_user # None
        THEN /\ Len(last.response) = 2
             /\ last.response[1] = SetLoginCookie(last.request.current_user)
             /\ last.response[2].effect = "redirect"
             /\ ~last.response[2].permanent
             /\ last.response[2].url =
                    IF NextArgument(last.request) # Empty
                    THEN NextArgument(last.request)
                    ELSE last.request.base_url \o <<"home">>
             /\ "finish" \notin Effects(last.response)
        ELSE /\ Len(last.response) = 1
             /\ last.response[1].effect = "finish"
             /\ last.response[1].page.template = "nlm/login.html"
             /\ DOMAIN last.response[1].page.multiauth = Providers
             /\ \A k \in Providers :
                    last.response[1].page.multiauth[k].enabled = Enabled(k)
             /\ Effects(last.response) \cap {"set_login_cookie", "redirect"} = {}

\* A signed-in caller asked for /login with a next argument and was sent on.
C15_Witness ==
    /\ last.op = "get"
    /\ last.request.current_user # None
    /\ NextArgument(last.request) # Empty
    /\ last.response[2].effect = "redirect"

---------------------------------------------------------------------------
\* C16: when a login attempt ends in FAILED, no partial state of it is
\* retained: right after the failure the dispatcher's credential context is
\* what it was when the attempt started.
C16_FailureRestoresContext ==
    [][\A a \in Attempts :
          (attempts[a].pc # "failed" /\ attempts'[a].pc = "failed")
          => Cred' = attempts[a].started]_vars

---------------------------------------------------------------------------
\* C17: every login attempt moves through CHOOSING, REDIRECTED(provider),
\* AWAITING_CALLBACK(provider) in that order with one and the same provider,
\* and ends, once its callback is handled, in exactly one of AUTHENTICATED,
\* DENIED or FAILED; no state is skipped and no terminal state is left again.
Terminal == {"authenticated", "denied", "failed"}

StepOf(pc) ==
    CASE pc = "choosing" -> {"redirected"}
      [] pc = "redirected" -> {"awaiting"}
      [] pc = "awaiting" -> Terminal
      [] OTHER -> {}

C17_AttemptOrder ==
    [][\A a \in Attempts :
          /\ attempts'[a].pc # attempts[a].pc
                => attempts'[a].pc \in StepOf(attempts[a].pc)
          /\ attempts[a].pc # "choosing"
                => attempts'[a].provider = attempts[a].provider
          /\ attempts'[a].pc = "awaiting"
                => resolveFromPath(FlowBase, UrlPath(attempts'[a].callback_url))
                     = attempts'[a].provider]_vars

---------------------------------------------------------------------------
\* C18: in every reachable state the credential context is either the initial
\* (None, None, None) or exactly the triple of one single provider, never a
\* mix of fields of two providers.
C18_ContextIsOneTriple ==
    \/ Cred = NoCred
    \/ \E k \in Providers : Cred = AdapterCred(k)

\* The context held google's triple and get_callback_url replaced it by
\* github's.
C18_Witness ==
    /\ last.op = "get_callback_url"
    /\ last.before = AdapterCred("google")
    /\ Cred = AdapterCred("github")

---------------------------------------------------------------------------
\* C19: in every state reached through the routes get_handlers registers, the
\* credential context never holds a disabled provider's credentials and a
\* disabled provider's adapter is never asked to authenticate.
C19_OnlyEnabledProviders ==
    /\ Cred # NoCred => \E k \in EnabledProviders : Cred = AdapterCred(k)
    /\ \A a \in Attempts :
          attempts[a].delegate # "none" => Enabled(attempts[a].delegate)

---------------------------------------------------------------------------
\* C20: the credential context is written only by get_callback_url called
\* with a handler that has a provider's login handler shape: authenticate,
\* get_handlers, the chooser's GET and POST, and get_callback_url with a
\* handler matching no provider leave it unchanged.
HasLoginShape(handler) ==
    \E k \in Providers : isinstance(handler, LoginHandlerOf(k))

C20_OnlyLoginShapeWrites ==
    [][Cred' # Cred => /\ last'.op = "get_callback_url"
                       /\ HasLoginShape(last'.handler)]_vars

\* get_callback_url was called with the chooser's own handler while the
\* context held google's triple, and left it there.
C20_Witness ==
    /\ last.op = "get_callback_url"
    /\ last.handler.class = "MultiOAuthLoginHandler"
    /\ last.before = AdapterCred("google")
    /\ Cred = AdapterCred("google")

====
